---------------------------- MODULE Spec2Model ----------------------------
(***************************************************************************)
(* A model of the Harvest Moon DS portrait reconstructor:                  *)
(*   reconstruct_FINAL.py  palette / tile / OAM decoding and compositing   *)
(*   walk_reconstruct.py   the batch driver over characters / expressions  *)
(*                                                                         *)
(* Every pure function of the source is an operator computed the way the   *)
(* code computes it (byte slices, little-endian unpacking, bit fields,     *)
(* loops as recursion).  A Python exception is a result with raised=TRUE.  *)
(* Python is 0-based, TLA+ sequences are 1-based: byte i of a buffer is    *)
(* data[i+1].                                                              *)
(***************************************************************************)
EXTENDS Integers, Sequences, FiniteSets, TLC

VARIABLES
    pc,               \* position of the operation under way
    pal_data,         \* load_ds_palette: the bytes read from the palette file
    pal_result,       \* load_ds_palette: what the call returned or raised
    attr0, attr1, attr2,  \* parse_oam_attrs: the three attribute words
    obj,              \* parse_oam_attrs: the returned dictionary
    r_palette,        \* render_sprite: the palette argument
    r_multiplier,     \* render_sprite: the tile_multiplier argument
    img,              \* render_sprite: the returned image
    oam_data,         \* bytes of the _oam.bin file
    tile_data,        \* bytes of the _tiles.bin file
    palette1_data,    \* bytes of palette1.bin
    palette2_data,    \* bytes of palette2.bin
    use_set,          \* reconstruct_portrait argument
    show_transparent, \* reconstruct_portrait / render_sprite argument
    palettes,         \* reconstruct_portrait: [palette1, palette2]
    doc,              \* result of parse_custom_oam_format
    objects,          \* reconstruct_portrait: the selected set
    bounds,           \* reconstruct_portrait: min_x, max_x, min_y, max_y
    canvas,           \* reconstruct_portrait: the canvas image
    todo,             \* reconstruct_portrait: objects the reversed loop has left
    error,            \* the exception that ended the call ("" if none)
    fs,               \* walk_reconstruct: the directory tree it walks
    ci,               \* walk_reconstruct: index of the character under way
    expression_files, \* walk_reconstruct: expressions left for that character
    log               \* walk_reconstruct: what happened to each expression

vars == <<pc, pal_data, pal_result, attr0, attr1, attr2, obj, r_palette,
          r_multiplier, img, oam_data, tile_data, palette1_data,
          palette2_data, use_set, show_transparent, palettes, doc, objects,
          bounds, canvas, todo, error, fs, ci, expression_files, log>>

paletteVars == <<pal_data, pal_result>>
attrVars == <<attr0, attr1, attr2, obj>>
renderVars == <<r_palette, r_multiplier, img>>
inputVars == <<oam_data, tile_data, palette1_data, palette2_data, use_set,
               show_transparent>>
portraitVars == <<palettes, doc, objects, bounds, canvas, todo, error>>
batchVars == <<fs, ci, expression_files, log>>

\* The value of a variable that the specification at hand does not use.
None == <<>>

-----------------------------------------------------------------------------
(* Python helpers                                                          *)

Min(a, b) == IF a <= b THEN a ELSE b

Max(a, b) == IF a >= b THEN a ELSE b

\* data[i:j] of a bytes object: clipped to the buffer, never an error.
Slice(data, i, j) == SubSeq(data, Min(i, Len(data)) + 1, Min(j, Len(data)))

\* struct.unpack('<H', b)[0]: struct.error unless b holds exactly 2 bytes.
StructUnpackH(b) ==
    IF Len(b) = 2 THEN [raised |-> FALSE, value |-> b[1] + 256 * b[2]]
    ELSE [raised |-> TRUE, value |-> 0]

-----------------------------------------------------------------------------
(* load_ds_palette                                                         *)

\* int((c / 31.0) * 255) for a 5-bit c.  c*255/31 is an integer only for c=0
\* and c=31 (exact in floating point) and otherwise at least 1/31 away from
\* one, so the truncated floating-point value is the integer quotient.
To8Bit(c) == (c * 255) \div 31

\* One pass of the loop body for color16 (lines 13-23).
DecodeColor(color16) ==
    LET r == color16 % 32
        g == (color16 \div 32) % 32
        b == (color16 \div 1024) % 32
    IN  <<To8Bit(r), To8Bit(g), To8Bit(b)>>

RECURSIVE PaletteLoop(_, _, _)
PaletteLoop(data, i, palette) ==
    IF i >= Len(data) THEN [raised |-> FALSE, palette |-> palette]
    ELSE LET u == StructUnpackH(Slice(data, i, i + 2))
         IN  IF u.raised THEN [raised |-> TRUE, palette |-> palette]
             ELSE PaletteLoop(data, i + 2,
                              Append(palette, DecodeColor(u.value)))

load_ds_palette(data) == PaletteLoop(data, 0, <<>>)

-----------------------------------------------------------------------------
(* decode_4bpp_tile                                                        *)

\* pixels: low nibble then high nibble of every byte, in byte order.
RECURSIVE TilePixels(_, _)
TilePixels(tile_bytes, n) ==
    IF n > Len(tile_bytes) THEN <<>>
    ELSE <<tile_bytes[n] % 16, (tile_bytes[n] \div 16) % 16>>
         \o TilePixels(tile_bytes, n + 1)

\* tile[y][x] = pixels[y*8 + x]; IndexError when fewer than 64 pixels.
decode_4bpp_tile(tile_bytes) ==
    LET pixels == TilePixels(tile_bytes, 1)
    IN  IF Len(pixels) < 64 THEN [raised |-> TRUE, tile |-> <<>>]
        ELSE [raised |-> FALSE,
              tile |-> [y \in 1..8 |-> [x \in 1..8 |-> pixels[(y - 1) * 8 + x]]]]

-----------------------------------------------------------------------------
(* wrap_ds_coordinate, parse_oam_attrs                                     *)

\* variant: the two thresholds exchanged
wrap_ds_coordinate_swapped(x, y) ==
    <<IF x >= 192 THEN x - 512 ELSE x, IF y >= 256 THEN y - 256 ELSE y>>

wrap_ds_coordinate(x, y) ==
    <<IF x >= 256 THEN x - 512 ELSE x, IF y >= 192 THEN y - 256 ELSE y>>

\* (word >> shift) & (modulus - 1), modulus a power of two
Bits(word, shift, modulus) == (word \div (2 ^ shift)) % modulus

SIZE_TABLE ==
    <<  <<  <<8, 8>>, <<16, 16>>, <<32, 32>>, <<64, 64>>  >>,
        <<  <<16, 8>>, <<32, 8>>, <<32, 16>>, <<64, 32>>  >>,
        <<  <<8, 16>>, <<8, 32>>, <<16, 32>>, <<32, 64>>  >>,
        <<  <<8, 8>>, <<8, 8>>, <<8, 8>>, <<8, 8>>  >>  >>

parse_oam_attrs(a0, a1, a2) ==
    LET y_coord == Bits(a0, 0, 256)
        rot_scaling == Bits(a0, 8, 2)
        double_size == IF rot_scaling = 1 THEN Bits(a0, 9, 2) ELSE 0
        obj_disable == IF rot_scaling = 1 THEN 0 ELSE Bits(a0, 9, 2)
        obj_shape == Bits(a0, 14, 4)
        x_coord == Bits(a1, 0, 512)
        obj_size == Bits(a1, 14, 4)
        wh == SIZE_TABLE[obj_shape + 1][obj_size + 1]
        xy == wrap_ds_coordinate(x_coord, y_coord)
    IN  [y |-> xy[2],
         rot_scaling |-> rot_scaling,
         double_size |-> double_size,
         obj_disable |-> obj_disable,
         obj_mode |-> Bits(a0, 10, 4),
         mosaic |-> Bits(a0, 12, 2),
         colors_palettes |-> Bits(a0, 13, 2),
         shape |-> obj_shape,
         x |-> xy[1],
         rot_scaling_param |-> IF rot_scaling = 1 THEN Bits(a1, 9, 32) ELSE 0,
         h_flip |-> IF rot_scaling = 1 THEN 0 ELSE Bits(a1, 12, 2),
         v_flip |-> IF rot_scaling = 1 THEN 0 ELSE Bits(a1, 13, 2),
         size |-> obj_size,
         tile_number |-> Bits(a2, 0, 1024),
         priority |-> Bits(a2, 10, 4),
         palette_number |-> Bits(a2, 12, 16),
         width |-> wh[1],
         height |-> wh[2]]

-----------------------------------------------------------------------------
(* render_sprite                                                           *)

TILE_SIZE == 32

\* Image.new('RGBA', (width, height), fill)
NewImage(width, height, fill) ==
    [width |-> width, height |-> height, raised |-> FALSE,
     px |-> [p \in (0..(width - 1)) \X (0..(height - 1)) |-> fill]]

\* img.putpixel((x, y), rgba): IndexError outside the image.
PutPixel(im, x, y, rgba) ==
    IF x \in 0..(im.width - 1) /\ y \in 0..(im.height - 1)
    THEN [im EXCEPT !.px[<<x, y>>] = rgba]
    ELSE [im EXCEPT !.raised = TRUE]

\* variant: a tile that ends exactly at the end of the buffer is skipped too
TileOutOfRangeOffByOne(tile_offset, data_len) ==
    tile_offset + TILE_SIZE >= data_len

\* if tile_offset + TILE_SIZE > len(tile_data): skip the cell (line 180)
TileOutOfRange(tile_offset, data_len) == tile_offset + TILE_SIZE > data_len

\* variant: h_flip mirrors each tile in place instead of the whole sprite
PixelXPerTile(width, tile_x, px, h_flip) ==
    IF h_flip # 0 THEN tile_x + (7 - px) ELSE tile_x + px

\* pixel_x = tile_x + px, mirrored about the sprite's width when h_flip
PixelX(width, tile_x, px, h_flip) ==
    LET pixel_x == tile_x + px
    IN  IF h_flip # 0 THEN (width - 1) - pixel_x ELSE pixel_x

\* pixel_y = tile_y + py, mirrored about the sprite's height when v_flip
PixelY(height, tile_y, py, v_flip) ==
    LET pixel_y == tile_y + py
    IN  IF v_flip # 0 THEN (height - 1) - pixel_y ELSE pixel_y

\* The py/px loops over one decoded tile (lines 192-216); n = py*8 + px.
RECURSIVE RenderTilePixels(_, _, _, _, _, _)
RenderTilePixels(o, palette, show, tile, n, im) ==
    IF n >= 64 \/ im.raised THEN im
    ELSE LET py == n \div 8
             px == n % 8
             palette_idx == tile.tile[py + 1][px + 1]
         IN  IF (~show /\ palette_idx = 0) \/ palette_idx >= Len(palette)
             THEN RenderTilePixels(o, palette, show, tile, n + 1, im)
             ELSE RenderTilePixels(o, palette, show, tile, n + 1,
                    PutPixel(im,
                             PixelX(o.width, tile.tile_x, px, o.h_flip),
                             PixelY(o.height, tile.tile_y, py, o.v_flip),
                             palette[palette_idx + 1] \o <<255>>))

\* The ty/tx loops (lines 174-218) with the running tile_num.
RECURSIVE RenderCells(_, _, _, _, _, _, _, _, _)
RenderCells(data, o, palette, multiplier, show, ty, tx, tile_num, im) ==
    IF im.raised \/ ty >= o.height \div 8 THEN im
    ELSE IF tx >= o.width \div 8
    THEN RenderCells(data, o, palette, multiplier, show, ty + 1, 0, tile_num, im)
    ELSE LET actual_start_tile == o.tile_number * multiplier
             current_tile_idx == actual_start_tile + tile_num
             tile_offset == current_tile_idx * TILE_SIZE
             d == decode_4bpp_tile(Slice(data, tile_offset, tile_offset + TILE_SIZE))
         IN  IF TileOutOfRange(tile_offset, Len(data))
             THEN RenderCells(data, o, palette, multiplier, show,
                              ty, tx + 1, tile_num + 1, im)
             ELSE IF d.raised THEN [im EXCEPT !.raised = TRUE]
             ELSE RenderCells(data, o, palette, multiplier, show,
                              ty, tx + 1, tile_num + 1,
                              RenderTilePixels(o, palette, show,
                                  [tile |-> d.tile, tile_x |-> tx * 8,
                                   tile_y |-> ty * 8], 0, im))

render_sprite(data, o, palette, tile_multiplier, show) ==
    RenderCells(data, o, palette, tile_multiplier, show, 0, 0, 0,
                NewImage(o.width, o.height,
                         IF show THEN <<255, 255, 255, 255>>
                         ELSE <<0, 0, 0, 0>>))

-----------------------------------------------------------------------------
(* parse_custom_oam_format                                                 *)

\* struct.unpack('<H', oam_data[offset:offset+2])[0]
UnpackAt(data, offset) == StructUnpackH(Slice(data, offset, offset + 2))

\* The header dictionary (lines 234-240): five words, struct.error if one
\* of the slices is short.
ParseHeader(data) ==
    LET w == [k \in 0..4 |-> UnpackAt(data, 2 * k)]
    IN  [raised |-> \E k \in 0..4 : w[k].raised,
         total_size |-> w[0].value,
         byte_2_3 |-> w[1].value,
         multiplier |-> w[2].value,
         set2_offset_adjust |-> w[3].value,
         set1_count |-> w[4].value]

\* variant: a record that ends exactly at the end of the buffer is dropped
Set1RecordMissingOffByOne(offset, data_len) == offset + 6 >= data_len

\* variant: the Set-1 loop stops unless two whole records are left
Set1RecordMissingTwelve(offset, data_len) == offset + 12 > data_len

\* if offset + 6 > len(oam_data): break    (Set 1, line 248)
Set1RecordMissing(offset, data_len) == offset + 6 > data_len

\* if offset + 6 > len(oam_data): break    (Set 2, line 268)
Set2RecordMissing(offset, data_len) == offset + 6 > data_len

\* The index stored on the i-th object of a set (lines 257, 277).
ObjectIndex(i) == i

\* for i in range(count): one of the two record loops (lines 247-260 for
\* set_no = 1, lines 267-280 for set_no = 2).
RECURSIVE ParseRecords(_, _, _, _, _, _)
ParseRecords(data, set_no, count, i, offset, objs) ==
    IF i >= count THEN [raised |-> FALSE, objs |-> objs, offset |-> offset]
    ELSE IF (IF set_no = 1 THEN Set1RecordMissing(offset, Len(data))
                           ELSE Set2RecordMissing(offset, Len(data)))
    THEN [raised |-> FALSE, objs |-> objs, offset |-> offset]
    ELSE LET a0 == UnpackAt(data, offset)
             a1 == UnpackAt(data, offset + 2)
             a2 == UnpackAt(data, offset + 4)
             o == [fld \in {"set", "index"} |->
                      IF fld = "set" THEN set_no ELSE ObjectIndex(i)]
                  @@ parse_oam_attrs(a0.value, a1.value, a2.value)
         IN  IF a0.raised \/ a1.raised \/ a2.raised
             THEN [raised |-> TRUE, objs |-> objs, offset |-> offset]
             ELSE ParseRecords(data, set_no, count, i + 1, offset + 6,
                               Append(objs, o))

parse_custom_oam_format(data) ==
    LET header == ParseHeader(data)
        s1 == ParseRecords(data, 1, header.set1_count, 0, 10, <<>>)
        c2 == UnpackAt(data, s1.offset)
        s2 == IF s1.offset + 2 <= Len(data)
              THEN ParseRecords(data, 2, c2.value, 0, s1.offset + 2, <<>>)
              ELSE [raised |-> FALSE, objs |-> <<>>, offset |-> s1.offset]
    IN  IF header.raised
        THEN [raised |-> TRUE, header |-> header,
              set1_objects |-> <<>>, set2_objects |-> <<>>]
        ELSE [raised |-> s1.raised \/ s2.raised, header |-> header,
              set1_objects |-> s1.objs, set2_objects |-> s2.objs]

-----------------------------------------------------------------------------
(* Inputs: the buffers and words the operations are run on                 *)

MaxPalBytes == 4
MaxTiles == 3

SeqsUpTo(S, n) == UNION {[1..k -> S] : k \in 0..n}

Word16 == 0..65535

LE16(w) == <<w % 256, w \div 256>>

\* The three words of a record, built from their bit fields.
Attr0Word(y, rot, bit9, shape) == y + 256 * rot + 512 * bit9 + 16384 * shape

Attr1Word(x, bit12, bit13, size) == x + 4096 * bit12 + 8192 * bit13 + 16384 * size

Attr2Word(tile, priority, pal) == tile + 1024 * priority + 4096 * pal

PalByteSamples == {0, 31, 124, 255}

\* palette files: four colours, two colours, and one with a trailing byte
PaletteFileA == LE16(31) \o LE16(992) \o LE16(31744) \o LE16(22197)

PaletteFileB == LE16(0) \o LE16(16)

PaletteFileOdd == LE16(31) \o <<7>>

\* 4bpp tiles whose pixel (x, y) of tile t is (x + 2y + 3t) % 5: neither
\* mirror-symmetric nor equal from one tile to the next.
SamplePixel(t, n) == ((n % 8) + 2 * (n \div 8) + 3 * t) % 5

SampleTileByte(t, i) == SamplePixel(t, 2 * i) + 16 * SamplePixel(t, 2 * i + 1)

\* n whole tiles followed by extra bytes of a partial tile
TileBuffer(n, extra) ==
    [i \in 1..(32 * n + extra) |->
        IF i <= 32 * n THEN SampleTileByte((i - 1) \div 32, (i - 1) % 32)
        ELSE 17]

TileBuffers == {TileBuffer(n, extra) : n \in 0..MaxTiles, extra \in {0, 31}}

SampleAttr0 == {Attr0Word(100, 0, 0, 0), Attr0Word(200, 0, 1, 1),
                Attr0Word(191, 1, 1, 2)}

SampleAttr1 == {Attr1Word(300, 1, 0, 0), Attr1Word(100, 0, 1, 3),
                Attr1Word(255, 1, 1, 1)}

SampleAttr2 == {Attr2Word(0, 0, 0), Attr2Word(5, 3, 1)}

\* (shape, size) pairs of the sprites rendered: 8x8, 16x8, 8x16, 16x16, 32x8
RenderShapes == {<<0, 0>>, <<1, 0>>, <<2, 0>>, <<0, 1>>, <<1, 1>>}

RenderObjects ==
    {parse_oam_attrs(Attr0Word(0, rot, 0, ss[1]),
                     Attr1Word(0, hf, vf, ss[2]),
                     Attr2Word(tile, 0, 0)) :
        ss \in RenderShapes, rot \in {0, 1}, hf \in {0, 1}, vf \in {0, 1},
        tile \in {0, 1}}

PaletteUnused == pal_data = None /\ pal_result = None

AttrUnused == attr0 = None /\ attr1 = None /\ attr2 = None

RenderUnused == r_palette = None /\ r_multiplier = None /\ img = None

InputUnused ==
    /\ oam_data = None /\ palette1_data = None /\ palette2_data = None
    /\ use_set = None

PortraitUnused ==
    /\ palettes = None /\ doc = None /\ objects = None /\ bounds = None
    /\ canvas = None /\ todo = None /\ error = None

BatchUnused == fs = None /\ ci = None /\ expression_files = None /\ log = None

-----------------------------------------------------------------------------
(* SpecPalette: load_ds_palette on a palette file                          *)

InitPalette ==
    /\ pc = "load_ds_palette"
    /\ pal_data \in SeqsUpTo(PalByteSamples, MaxPalBytes)
    /\ pal_result = None
    /\ AttrUnused /\ obj = None /\ RenderUnused /\ InputUnused
    /\ tile_data = None /\ show_transparent = None
    /\ PortraitUnused /\ BatchUnused

LoadDsPalette ==
    /\ pc = "load_ds_palette"
    /\ pal_result' = load_ds_palette(pal_data)
    /\ pc' = IF pal_result'.raised THEN "palette_raised" ELSE "palette_returned"
    /\ UNCHANGED <<pal_data, attrVars, renderVars, inputVars, portraitVars,
                   batchVars>>

NextPalette == LoadDsPalette

SpecPalette == InitPalette /\ [][NextPalette]_vars

-----------------------------------------------------------------------------
(* SpecAttrs: parse_oam_attrs on three attribute words                     *)

InitAttrs ==
    /\ pc = "parse_oam_attrs"
    /\ \/ attr0 \in Word16 /\ attr1 \in SampleAttr1
       \/ attr0 \in SampleAttr0 /\ attr1 \in Word16
    /\ attr2 \in SampleAttr2
    /\ obj = None
    /\ PaletteUnused /\ RenderUnused /\ InputUnused
    /\ tile_data = None /\ show_transparent = None
    /\ PortraitUnused /\ BatchUnused

ParseOamAttrs ==
    /\ pc = "parse_oam_attrs"
    /\ obj' = parse_oam_attrs(attr0, attr1, attr2)
    /\ pc' = "attrs_returned"
    /\ UNCHANGED <<attr0, attr1, attr2, paletteVars, renderVars, inputVars,
                   portraitVars, batchVars>>

NextAttrs == ParseOamAttrs

SpecAttrs == InitAttrs /\ [][NextAttrs]_vars

-----------------------------------------------------------------------------
(* SpecRender: render_sprite on one object                                 *)

InitRender ==
    /\ pc = "render_sprite"
    /\ obj \in RenderObjects
    /\ tile_data \in TileBuffers
    /\ r_palette \in {load_ds_palette(PaletteFileA).palette,
                      load_ds_palette(PaletteFileB).palette}
    /\ r_multiplier \in {0, 1, 2}
    /\ show_transparent \in BOOLEAN
    /\ img = None
    /\ PaletteUnused /\ AttrUnused /\ InputUnused
    /\ PortraitUnused /\ BatchUnused

RenderSprite ==
    /\ pc = "render_sprite"
    /\ img' = render_sprite(tile_data, obj, r_palette, r_multiplier,
                            show_transparent)
    /\ pc' = IF img'.raised THEN "render_raised" ELSE "render_returned"
    /\ UNCHANGED <<obj, r_palette, r_multiplier, paletteVars, attr0, attr1,
                   attr2, inputVars, portraitVars, batchVars>>

NextRender == RenderSprite

SpecRender == InitRender /\ [][NextRender]_vars

-----------------------------------------------------------------------------
(* Claims about load_ds_palette, parse_oam_attrs and render_sprite         *)

\* C6 (as claimed): load_ds_palette never fails and returns exactly
\* floor(len/2) colours, an odd trailing byte being dropped silently.
C6_NeverFailsFloorHalf ==
    pc \in {"palette_returned", "palette_raised"} =>
        /\ ~pal_result.raised
        /\ Len(pal_result.palette) = Len(pal_data) \div 2

\* C7: parse_oam_attrs stores x = raw_x - 512 if raw_x >= 256 else raw_x and
\* y = raw_y - 256 if raw_y >= 192 else raw_y (raw_x = attr1 bits 0-8,
\* raw_y = attr0 bits 0-7), so -256 <= x <= 255 and -64 <= y <= 191.
C7_SignedCoordinates ==
    pc = "attrs_returned" =>
        LET raw_x == attr1 % 512
            raw_y == attr0 % 256
        IN  /\ obj.x = (IF raw_x >= 256 THEN raw_x - 512 ELSE raw_x)
            /\ obj.y = (IF raw_y >= 192 THEN raw_y - 256 ELSE raw_y)
            /\ obj.x >= -256 /\ obj.x <= 255
            /\ obj.y >= -64 /\ obj.y <= 191

\* C7 witness: raw x 300 and raw y 200 were parsed to -212 and -56.
C7_Witness ==
    /\ pc = "attrs_returned"
    /\ attr1 % 512 = 300 /\ obj.x = -212
    /\ attr0 % 256 = 200 /\ obj.y = -56

\* The cells of the sprite of obj: (tx, ty), tile column and tile row.
Cells == (0..(obj.width \div 8 - 1)) \X (0..(obj.height \div 8 - 1))

\* Byte offset in tile_data of the source tile of destination cell c.
CellOffset(c) ==
    (obj.tile_number * r_multiplier + c[2] * (obj.width \div 8) + c[1]) * 32

CellOutOfRange(c) == CellOffset(c) + 32 > Len(tile_data)

\* Where pixel (x, y) of the unflipped layout lands in the raster.
Reflected(x, y) ==
    <<IF obj.h_flip = 1 THEN obj.width - 1 - x ELSE x,
      IF obj.v_flip = 1 THEN obj.height - 1 - y ELSE y>>

\* The raster pixel that pixel n (0..63, row-major) of cell c lands on.
CellPixel(c, n) ==
    img.px[Reflected(c[1] * 8 + (n % 8), c[2] * 8 + (n \div 8))]

\* The 4-bit value of pixel n of the tile stored at byte offset off.
Nibble(off, n) ==
    LET byte == tile_data[off + (n \div 2) + 1]
    IN  IF n % 2 = 0 THEN byte % 16 ELSE byte \div 16

Fill == IF show_transparent THEN <<255, 255, 255, 255>> ELSE <<0, 0, 0, 0>>

\* Every cell whose tile is inside the buffer is decoded and drawn.
InRangeCellsDrawn ==
    \A c \in Cells : ~CellOutOfRange(c) =>
        \A n \in 0..63 :
            LET idx == Nibble(CellOffset(c), n)
            IN  CellPixel(c, n) =
                   IF (~show_transparent /\ idx = 0) \/ idx >= Len(r_palette)
                   THEN Fill
                   ELSE r_palette[idx + 1] \o <<255>>

\* C3 (as claimed): for either value of show_transparent, a cell whose tile
\* offset plus 32 exceeds the buffer has 64 pixels of alpha 0, the call does
\* not fail, and every other cell is decoded and drawn.
C3_SkippedCellAlphaZero ==
    pc \in {"render_returned", "render_raised"} =>
        /\ pc = "render_returned"
        /\ \A c \in Cells : CellOutOfRange(c) =>
               \A n \in 0..63 : CellPixel(c, n)[4] = 0
        /\ InRangeCellsDrawn

\* C3 (amended): a cell whose tile offset plus 32 exceeds the buffer keeps
\* the raster's initial fill in all 64 pixels (alpha 0 when show_transparent
\* is off, opaque white when it is on), the call does not fail, and every
\* other cell is decoded and drawn.
C3_SkippedCellKeepsFill ==
    pc \in {"render_returned", "render_raised"} =>
        /\ pc = "render_returned"
        /\ \A c \in Cells : CellOutOfRange(c) =>
               \A n \in 0..63 : CellPixel(c, n) = Fill
        /\ InRangeCellsDrawn

\* C3 witness: a flipped sprite rendered with the debug fill, one cell out
\* of the buffer and another one drawn with a palette colour.
C3_Witness ==
    /\ pc = "render_returned"
    /\ show_transparent /\ obj.h_flip = 1
    /\ \E c \in Cells : CellOutOfRange(c)
    /\ \E c \in Cells : /\ ~CellOutOfRange(c)
                        /\ \E n \in 0..63 : CellPixel(c, n) # Fill

\* C9: the raster of a flipped object is the mirror image, about the whole
\* sprite, of the raster of the same object with both flips clear; no write
\* falls outside the raster, which is exactly width x height.
C9_WholeSpriteMirror ==
    pc \in {"render_returned", "render_raised"} =>
        LET plain == render_sprite(tile_data,
                                   [obj EXCEPT !.h_flip = 0, !.v_flip = 0],
                                   r_palette, r_multiplier, show_transparent)
        IN  /\ ~img.raised
            /\ DOMAIN img.px = (0..(obj.width - 1)) \X (0..(obj.height - 1))
            /\ \A p \in DOMAIN img.px :
                   img.px[p] =
                      plain.px[<<IF obj.h_flip = 1 THEN obj.width - 1 - p[1]
                                                   ELSE p[1],
                                 IF obj.v_flip = 1 THEN obj.height - 1 - p[2]
                                                   ELSE p[2]>>]

\* C9 witness: a 16x16 sprite flipped both ways whose raster differs from
\* the unflipped one.
C9_Witness ==
    /\ pc = "render_returned"
    /\ obj.h_flip = 1 /\ obj.v_flip = 1
    /\ obj.width = 16 /\ obj.height = 16
    /\ img.px # render_sprite(tile_data,
                              [obj EXCEPT !.h_flip = 0, !.v_flip = 0],
                              r_palette, r_multiplier, show_transparent).px

-----------------------------------------------------------------------------
(* SpecParse: parse_custom_oam_format on a record document                 *)

MaxRecs == 2
MaxCount == 3

RecordBytes(a0, a1, a2) == LE16(a0) \o LE16(a1) \o LE16(a2)

RECURSIVE Flatten(_)
Flatten(ss) == IF ss = <<>> THEN <<>> ELSE Head(ss) \o Flatten(Tail(ss))

\* header (total_size, byte_2_3, multiplier, set2_offset_adjust, set1_count),
\* Set-1 records, set2_count, Set-2 records
OamDocument(multiplier, c1, recs1, c2, recs2) ==
    LET body == Flatten(recs1) \o LE16(c2) \o Flatten(recs2)
    IN  LE16(10 + Len(body)) \o LE16(0) \o LE16(multiplier) \o LE16(0)
        \o LE16(c1) \o body

ParseSampleRecords ==
    {RecordBytes(Attr0Word(200, 0, 0, 1), Attr1Word(300, 1, 0, 0),
                 Attr2Word(5, 3, 1)),
     RecordBytes(Attr0Word(2, 1, 1, 0), Attr1Word(0, 0, 0, 1),
                 Attr2Word(0, 0, 0))}

\* d is a document over the sample records with any declared counts, cut
\* at any length.
IsParseInput(d) ==
    \E c1 \in 0..MaxCount, c2 \in 0..MaxCount,
       recs1 \in SeqsUpTo(ParseSampleRecords, MaxRecs),
       recs2 \in SeqsUpTo(ParseSampleRecords, MaxRecs) :
        LET whole == OamDocument(4, c1, recs1, c2, recs2)
        IN  \E n \in 0..Len(whole) : d = SubSeq(whole, 1, n)

InitParse ==
    /\ pc = "parse_custom_oam_format"
    /\ IsParseInput(oam_data)
    /\ doc = None
    /\ PaletteUnused /\ AttrUnused /\ obj = None /\ RenderUnused
    /\ tile_data = None /\ palette1_data = None /\ palette2_data = None
    /\ use_set = None /\ show_transparent = None
    /\ palettes = None /\ objects = None /\ bounds = None /\ canvas = None
    /\ todo = None /\ error = None
    /\ BatchUnused

ParseCustomOamFormat ==
    /\ pc = "parse_custom_oam_format"
    /\ doc' = parse_custom_oam_format(oam_data)
    /\ pc' = IF doc'.raised THEN "parse_raised" ELSE "parse_returned"
    /\ UNCHANGED <<paletteVars, attrVars, renderVars, inputVars, palettes,
                   objects, bounds, canvas, todo, error, batchVars>>

NextParse == ParseCustomOamFormat

SpecParse == InitParse /\ [][NextParse]_vars

\* The 16-bit little-endian word at byte offset off of oam_data.
WordAt(off) == oam_data[off + 1] + 256 * oam_data[off + 2]

\* The object a record at byte offset off decodes to, tagged (set_no, index).
RecordAt(off, set_no, index) ==
    [fld \in {"set", "index"} |-> IF fld = "set" THEN set_no ELSE index]
    @@ parse_oam_attrs(WordAt(off), WordAt(off + 2), WordAt(off + 4))

\* C4: for a buffer of at least 10 bytes no error is raised; Set 1 is the
\* first min(set1_count, floor((len-10)/6)) records from byte 10 in buffer
\* order, the k-th tagged set=1, index=k; Set-2 objects are tagged set=2 and
\* their own index; a header declaring one record, followed by one record
\* and a zero Set-2 count, gives one Set-1 object (1,0) and no Set-2 object.
C4_Set1IsAvailablePrefix ==
    (pc \in {"parse_returned", "parse_raised"} /\ Len(oam_data) >= 10) =>
        LET n == Min(WordAt(8), (Len(oam_data) - 10) \div 6)
        IN  /\ pc = "parse_returned"
            /\ Len(doc.set1_objects) = n
            /\ \A k \in 0..(n - 1) :
                   doc.set1_objects[k + 1] = RecordAt(10 + 6 * k, 1, k)
            /\ \A k \in 0..(Len(doc.set2_objects) - 1) :
                   /\ doc.set2_objects[k + 1].set = 2
                   /\ doc.set2_objects[k + 1].index = k
            /\ (Len(oam_data) = 18 /\ WordAt(8) = 1 /\ WordAt(16) = 0) =>
                   /\ Len(doc.set1_objects) = 1
                   /\ doc.set1_objects[1].set = 1
                   /\ doc.set1_objects[1].index = 0
                   /\ doc.set2_objects = <<>>

\* C4 witness: the header declared more records than the buffer holds and
\* the records that were there were parsed.
C4_Witness ==
    /\ pc = "parse_returned"
    /\ Len(doc.set1_objects) = 2
    /\ doc.header.set1_count = 3
    /\ doc.set1_objects[2].index = 1

\* C10: whenever Set 1 is truncated, Set 2 is empty.
C10_TruncatedSet1EmptySet2 ==
    pc = "parse_returned" =>
        (Len(doc.set1_objects) < doc.header.set1_count =>
            doc.set2_objects = <<>>)

\* C10 witness: Set 1 was truncated and the bytes left over were read as a
\* non-zero set2_count.
C10_Witness ==
    /\ pc = "parse_returned"
    /\ Len(doc.set1_objects) < doc.header.set1_count
    /\ Len(oam_data) >= 10 + 6 * Len(doc.set1_objects) + 2
    /\ WordAt(10 + 6 * Len(doc.set1_objects)) > 0
    /\ doc.set2_objects = <<>>

-----------------------------------------------------------------------------
(* Spec: reconstruct_portrait on one expression                            *)

MaxObjs == 2

\* min(...) / max(...) of a non-empty set of integers
MinOf(S) == CHOOSE m \in S : \A v \in S : m <= v

MaxOf(S) == CHOOSE m \in S : \A v \in S : m >= v

\* min_x, max_x, min_y, max_y (lines 322-325), objs not empty
FindBounds(objs) ==
    LET I == 1..Len(objs)
    IN  [min_x |-> MinOf({objs[i].x : i \in I}),
         max_x |-> MaxOf({objs[i].x + objs[i].width : i \in I}),
         min_y |-> MinOf({objs[i].y : i \in I}),
         max_y |-> MaxOf({objs[i].y + objs[i].height : i \in I})]

\* variant: the loop visits the objects in index order
NotReversed(objs) == objs

\* reversed(objects): the order in which the loop of line 340 visits them
Reversed(objs) == [i \in 1..Len(objs) |-> objs[Len(objs) + 1 - i]]

\* variant: the obj_disable test is missing
NeverSkipped(o) == FALSE

\* if obj['obj_disable']: continue    (lines 341-344)
Skipped(o) == o.obj_disable # 0

\* pal_idx = obj['palette_number'], 0 when not below len(palettes)
SelectPalette(o, pals) ==
    LET pal_idx == IF o.palette_number >= Len(pals) THEN 0
                   ELSE o.palette_number
    IN  pals[pal_idx + 1]

\* canvas.paste(sprite, (paste_x, paste_y), sprite): the sprite's own alpha
\* is the mask; alpha is 0 or 255, so a pixel is replaced or kept.  Pixels
\* that fall outside the canvas are clipped.
Paste(cv, sprite, paste_x, paste_y) ==
    [cv EXCEPT !.px =
        [p \in DOMAIN cv.px |->
            LET sp == <<p[1] - paste_x, p[2] - paste_y>>
            IN  IF sp \in DOMAIN sprite.px /\ sprite.px[sp][4] = 255
                THEN sprite.px[sp] ELSE cv.px[p]]]

\* Records of the portraits: overlapping 8x8 sprites with different tiles,
\* palettes, priorities and flips, a disabled 16x8 sprite reaching left of
\* and above the others, and a rotation/scaling object with bit 9 set.
PortraitRecords ==
    {RecordBytes(Attr0Word(0, 0, 0, 0), Attr1Word(0, 0, 0, 0),
                 Attr2Word(0, 0, 0)),
     RecordBytes(Attr0Word(2, 0, 0, 0), Attr1Word(4, 1, 0, 0),
                 Attr2Word(1, 3, 1)),
     RecordBytes(Attr0Word(254, 0, 1, 1), Attr1Word(508, 0, 0, 0),
                 Attr2Word(0, 1, 0)),
     RecordBytes(Attr0Word(0, 0, 0, 0), Attr1Word(0, 0, 1, 0),
                 Attr2Word(1, 2, 5)),
     RecordBytes(Attr0Word(0, 1, 1, 0), Attr1Word(2, 0, 0, 0),
                 Attr2Word(2, 0, 1))}

\* lengths a document is cut to
PortraitCuts == {0, 9, 10, 12, 15, 17}

Init ==
    /\ pc = "load"
    /\ \E recs1 \in SeqsUpTo(PortraitRecords, MaxObjs),
          recs2 \in SeqsUpTo(PortraitRecords, 1), multiplier \in {1, 2} :
          LET whole == OamDocument(multiplier, Len(recs1), recs1,
                                   Len(recs2), recs2)
          IN  \/ /\ oam_data = whole
                 /\ show_transparent \in BOOLEAN
                 /\ palette1_data = PaletteFileA
                 /\ palette2_data = PaletteFileB
              \/ /\ \E n \in PortraitCuts : oam_data = Slice(whole, 0, n)
                 /\ multiplier = 1
                 /\ show_transparent = FALSE
                 /\ palette1_data = PaletteFileA
                 /\ palette2_data = PaletteFileB
              \/ /\ oam_data = whole
                 /\ multiplier = 1 /\ Len(recs1) = 1 /\ recs2 = <<>>
                 /\ show_transparent = FALSE
                 /\ \E files \in {<<PaletteFileOdd, PaletteFileB>>,
                                  <<PaletteFileA, PaletteFileOdd>>} :
                        /\ palette1_data = files[1]
                        /\ palette2_data = files[2]
    /\ tile_data = TileBuffer(MaxTiles, 31)
    /\ use_set \in {1, 2}
    /\ palettes = None /\ doc = None /\ objects = None /\ bounds = None
    /\ canvas = None /\ todo = None
    /\ error = ""
    /\ PaletteUnused /\ AttrUnused /\ obj = None /\ RenderUnused
    /\ BatchUnused

\* lines 292-304: read the files, decode the palettes, parse the document
LoadAndParse ==
    /\ pc = "load"
    /\ LET palette1 == load_ds_palette(palette1_data)
           palette2 == load_ds_palette(palette2_data)
           parsed == parse_custom_oam_format(oam_data)
       IN  IF palette1.raised \/ palette2.raised \/ parsed.raised
           THEN /\ pc' = "raised"
                /\ error' = "struct.error"
                /\ UNCHANGED <<palettes, doc>>
           ELSE /\ pc' = "parsed"
                /\ palettes' = <<palette1.palette, palette2.palette>>
                /\ doc' = parsed
                /\ UNCHANGED error
    /\ UNCHANGED <<paletteVars, attrVars, renderVars, inputVars, objects,
                   bounds, canvas, todo, batchVars>>

\* lines 313-336: select the set, find the bounds, create the canvas
SelectAndBound ==
    /\ pc = "parsed"
    /\ objects' = IF use_set = 1 THEN doc.set1_objects ELSE doc.set2_objects
    /\ IF objects' = <<>>
       THEN /\ pc' = "raised"
            /\ error' = "ValueError"
            /\ UNCHANGED <<bounds, canvas, todo>>
       ELSE /\ bounds' = FindBounds(objects')
            /\ canvas' = NewImage(bounds'.max_x - bounds'.min_x,
                                  bounds'.max_y - bounds'.min_y,
                                  <<0, 0, 0, 0>>)
            /\ todo' = Reversed(objects')
            /\ pc' = "compositing"
            /\ UNCHANGED error
    /\ UNCHANGED <<paletteVars, attrVars, renderVars, inputVars, palettes,
                   doc, batchVars>>

\* lines 340-358: one pass of the loop over reversed(objects)
CompositeObject ==
    /\ pc = "compositing"
    /\ todo # <<>>
    /\ LET o == Head(todo)
           sprite == render_sprite(tile_data, o, SelectPalette(o, palettes),
                                   doc.header.multiplier, show_transparent)
       IN  IF Skipped(o)
           THEN UNCHANGED <<canvas, pc, error>>
           ELSE IF sprite.raised
           THEN /\ pc' = "raised"
                /\ error' = "IndexError"
                /\ UNCHANGED canvas
           ELSE /\ canvas' = Paste(canvas, sprite, o.x - bounds.min_x,
                                   o.y - bounds.min_y)
                /\ UNCHANGED <<pc, error>>
    /\ todo' = Tail(todo)
    /\ UNCHANGED <<paletteVars, attrVars, renderVars, inputVars, palettes,
                   doc, objects, bounds, batchVars>>

\* line 372: the loop is over, the canvas is saved
Save ==
    /\ pc = "compositing"
    /\ todo = <<>>
    /\ pc' = "saved"
    /\ UNCHANGED <<paletteVars, attrVars, renderVars, inputVars, portraitVars,
                   batchVars>>

Next == LoadAndParse \/ SelectAndBound \/ CompositeObject \/ Save

Spec == Init /\ [][Next]_vars

-----------------------------------------------------------------------------
(* Claims about reconstruct_portrait                                       *)

Transparent == <<0, 0, 0, 0>>

\* The sprite of the i-th object of the selected set, as the loop renders it.
SpriteOf(i) ==
    render_sprite(tile_data, objects[i], SelectPalette(objects[i], palettes),
                  doc.header.multiplier, show_transparent)

\* The sprite pixel of object i that lies over canvas pixel p.
Over(i, p) ==
    <<p[1] - (objects[i].x - bounds.min_x), p[2] - (objects[i].y - bounds.min_y)>>

\* C1: every canvas pixel holds the colour written by the lowest-index
\* enabled object whose sprite is opaque there, and is transparent if there
\* is none, whatever the priority fields are.
C1_LowestIndexWins ==
    pc = "saved" =>
        \A sprites \in {[i \in 1..Len(objects) |-> SpriteOf(i)]} :
            \A p \in DOMAIN canvas.px :
                LET opaque == {i \in 1..Len(objects) :
                                  /\ objects[i].obj_disable = 0
                                  /\ Over(i, p) \in DOMAIN sprites[i].px
                                  /\ sprites[i].px[Over(i, p)][4] = 255}
                IN  IF opaque = {} THEN canvas.px[p] = Transparent
                    ELSE canvas.px[p] =
                            sprites[MinOf(opaque)].px[Over(MinOf(opaque), p)]

\* C1 witness: the enabled objects at indices 0 and 1 are opaque at a common
\* pixel with different colours, index 0 has the numerically larger priority
\* field, and the canvas holds the colour of index 0.
C1_Witness ==
    /\ pc = "saved"
    /\ Len(objects) >= 2
    /\ objects[1].obj_disable = 0 /\ objects[2].obj_disable = 0
    /\ objects[1].priority > objects[2].priority
    /\ \E s1 \in {SpriteOf(1)}, s2 \in {SpriteOf(2)} :
           \E p \in DOMAIN canvas.px :
               /\ Over(1, p) \in DOMAIN s1.px
               /\ Over(2, p) \in DOMAIN s2.px
               /\ s1.px[Over(1, p)][4] = 255
               /\ s2.px[Over(2, p)][4] = 255
               /\ s1.px[Over(1, p)] # s2.px[Over(2, p)]
               /\ canvas.px[p] = s1.px[Over(1, p)]

\* The canvas after pasting the objects of order, a disabled object
\* contributing a sprite whose pixels are all transparent.
RECURSIVE PasteDisabledAsTransparent(_, _, _)
PasteDisabledAsTransparent(cv, order, origin) ==
    IF order = <<>> THEN cv
    ELSE LET o == Head(order)
             sprite == IF o.obj_disable # 0
                       THEN NewImage(o.width, o.height, Transparent)
                       ELSE render_sprite(tile_data, o,
                                          SelectPalette(o, palettes),
                                          doc.header.multiplier,
                                          show_transparent)
         IN  PasteDisabledAsTransparent(
                 Paste(cv, sprite, o.x - origin[1], o.y - origin[2]),
                 Tail(order), origin)

\* C2: the saved canvas is the one produced with the pixels of every
\* disabled object all transparent, on a canvas whose origin and size are the
\* min of x, y and the max of x+width, y+height over all objects, the
\* disabled ones included.
C2_DisabledOnlyInBounds ==
    pc = "saved" =>
        LET I == 1..Len(objects)
            x0 == MinOf({objects[i].x : i \in I})
            y0 == MinOf({objects[i].y : i \in I})
            x1 == MaxOf({objects[i].x + objects[i].width : i \in I})
            y1 == MaxOf({objects[i].y + objects[i].height : i \in I})
        IN  /\ bounds = [min_x |-> x0, max_x |-> x1, min_y |-> y0, max_y |-> y1]
            /\ canvas.width = x1 - x0 /\ canvas.height = y1 - y0
            /\ canvas = PasteDisabledAsTransparent(
                            NewImage(x1 - x0, y1 - y0, Transparent),
                            [i \in I |-> objects[Len(objects) + 1 - i]],
                            <<x0, y0>>)

\* C2 witness: a disabled object whose sprite would have had opaque pixels
\* lies left of and above every enabled object and sets the canvas origin,
\* and an enabled object was drawn.
C2_Witness ==
    /\ pc = "saved"
    /\ \E i \in 1..Len(objects) :
           /\ objects[i].obj_disable = 1
           /\ \E s \in {SpriteOf(i)} : \E p \in DOMAIN s.px : s.px[p][4] = 255
           /\ bounds.min_x = objects[i].x /\ bounds.min_y = objects[i].y
           /\ \A j \in 1..Len(objects) :
                  objects[j].obj_disable = 0 =>
                      objects[j].x > objects[i].x /\ objects[j].y > objects[i].y
    /\ \E j \in 1..Len(objects) : objects[j].obj_disable = 0
    /\ \E p \in DOMAIN canvas.px : canvas.px[p] # Transparent

\* C5 (as claimed): with both palettes decoded, processing a record
\* document ends in a fatal error if and only if the buffer has fewer than
\* 10 bytes; every longer buffer yields a canvas.
C5_FatalIffShortHeader ==
    (/\ pc \in {"saved", "raised"}
     /\ ~load_ds_palette(palette1_data).raised
     /\ ~load_ds_palette(palette2_data).raised) =>
        (pc = "raised" <=> Len(oam_data) < 10)

-----------------------------------------------------------------------------
(* SpecBatch: reconstruct_all_characters over a directory tree             *)

MaxChars == 2
MaxExprs == 2

\* One <expression>_tiles.bin of a binFiles directory: whether its _oam.bin
\* exists and whether reconstruct_portrait raises on its files.
Expressions == [oam_exists : BOOLEAN, raises : BOOLEAN]

\* One character folder: whether it holds a binFiles directory and, in
\* sorted order, the _tiles.bin files of that directory.
Characters ==
    {[binFiles |-> FALSE, expressions |-> <<>>]}
    \cup {[binFiles |-> TRUE, expressions |-> e] :
             e \in SeqsUpTo(Expressions, MaxExprs)}

InitBatch ==
    /\ pc = "walk"
    /\ fs \in SeqsUpTo(Characters, MaxChars)
    /\ ci = 0
    /\ expression_files = <<>>
    /\ log = <<>>
    /\ error = ""
    /\ PaletteUnused /\ AttrUnused /\ obj = None /\ RenderUnused /\ InputUnused
    /\ tile_data = None /\ show_transparent = None
    /\ palettes = None /\ doc = None /\ objects = None /\ bounds = None
    /\ canvas = None /\ todo = None

batchFrame == <<paletteVars, attrVars, renderVars, inputVars, palettes, doc,
                objects, bounds, canvas, todo>>

\* lines 6-22: list and sort the character folders
ListCharacters ==
    /\ pc = "walk"
    /\ ci' = 1
    /\ pc' = "character"
    /\ UNCHANGED <<fs, expression_files, log, error, batchFrame>>

\* lines 26-42: os.listdir(bin_dir) of the next character; it raises
\* FileNotFoundError, which nothing catches, when binFiles does not exist
EnterCharacter ==
    /\ pc = "character"
    /\ ci <= Len(fs)
    /\ IF fs[ci].binFiles
       THEN /\ expression_files' = fs[ci].expressions
            /\ pc' = "expression"
            /\ UNCHANGED error
       ELSE /\ pc' = "walk_raised"
            /\ error' = "FileNotFoundError"
            /\ UNCHANGED expression_files
    /\ UNCHANGED <<fs, ci, log, batchFrame>>

\* lines 44-73: one expression: skipped when its _oam.bin is missing, else
\* handed to reconstruct_portrait inside try / except Exception
HandleExpression ==
    /\ pc = "expression"
    /\ expression_files # <<>>
    /\ LET e == Head(expression_files)
           n == Len(fs[ci].expressions) - Len(expression_files) + 1
           event == IF ~e.oam_exists THEN "skipped"
                    ELSE IF e.raises THEN "failed" ELSE "reconstructed"
       IN  log' = Append(log, [character |-> ci, expression |-> n,
                               event |-> event])
    /\ expression_files' = Tail(expression_files)
    /\ UNCHANGED <<pc, fs, ci, error, batchFrame>>

\* lines 75-76, 26: the expressions are done, on to the next character
LeaveCharacter ==
    /\ pc = "expression"
    /\ expression_files = <<>>
    /\ ci' = ci + 1
    /\ pc' = "character"
    /\ UNCHANGED <<fs, expression_files, log, error, batchFrame>>

\* the loop of line 26 is over
Return ==
    /\ pc = "character"
    /\ ci > Len(fs)
    /\ pc' = "walk_returned"
    /\ UNCHANGED <<fs, ci, expression_files, log, error, batchFrame>>

NextBatch ==
    \/ ListCharacters
    \/ EnterCharacter
    \/ HandleExpression
    \/ LeaveCharacter
    \/ Return

SpecBatch == InitBatch /\ [][NextBatch]_vars

\* C8 (as claimed): when the batch has ended, every expression of every
\* character folder was either skipped for its missing _oam.bin or handed to
\* reconstruct_portrait, whatever happened to the expressions and characters
\* before it.
C8_EveryExpressionReached ==
    pc \in {"walk_returned", "walk_raised"} =>
        \A c \in 1..Len(fs) : \A n \in 1..Len(fs[c].expressions) :
            \E k \in 1..Len(log) :
                /\ log[k].character = c
                /\ log[k].expression = n
                /\ IF fs[c].expressions[n].oam_exists
                   THEN log[k].event \in {"reconstructed", "failed"}
                   ELSE log[k].event = "skipped"

=============================================================================
